---------------------------- MODULE Spec2Model ----------------------------
(***************************************************************************)
(* The POST handler of src/app/api/analyze/route.ts: configuration check,  *)
(* body validation, the three concurrent classification calls joined by    *)
(* Promise.all, the normalizers and the response assembly.                 *)
(*                                                                         *)
(* A JavaScript string is a sequence of one-character strings, so that     *)
(* trim, toLowerCase, split and includes are computed, not assumed.        *)
(***************************************************************************)
EXTENDS Integers, Sequences, FiniteSets, TLC

(* ---------------------------- bounds ----------------------------------- *)

\* Largest number of comma-separated segments in a products completion.
MaxSegs == 2

\* Longest completion the backend returns in the specification with fairness.
MaxLiveLen == 7

(* ------------------------ program constants ---------------------------- *)

CLOUDFLARE_PRODUCTS ==
  << <<"A","I"," ","G","a","t","e","w","a","y">>,
     <<"B","r","o","w","s","e","r"," ","R","e","n","d","e","r","i","n","g">>,
     <<"C","a","l","l","s">>,
     <<"C","l","o","u","d","f","l","a","r","e"," ","f","o","r"," ","P","l","a","t","f","o","r","m","s">>,
     <<"E","m","a","i","l"," ","R","o","u","t","i","n","g">>,
     <<"H","y","p","e","r","d","r","i","v","e">>,
     <<"K","V">>,
     <<"W","A","F">>,
     <<"P","a","g","e","s"," ","G","a","t","e","w","a","y">>,
     <<"P","u","b","/","S","u","b">>,
     <<"P","u","l","u","m","i">>,
     <<"Q","u","e","u","e","s">>,
     <<"M","a","g","i","c"," ","T","r","a","n","s","i","t">>,
     <<"B","o","t"," ","M","a","n","a","g","e","m","e","n","t">>,
     <<"W","o","r","k","e","r","s">>,
     <<"P","a","g","e","s">>,
     <<"R","2">>,
     <<"D","1">>,
     <<"I","m","a","g","e","s">>,
     <<"S","t","r","e","a","m">>,
     <<"D","N","S">>,
     <<"S","S","L","/","T","L","S">>,
     <<"D","D","o","S"," ","P","r","o","t","e","c","t","i","o","n">>,
     <<"A","c","c","e","s","s">>,
     <<"Z","e","r","o"," ","T","r","u","s","t">>,
     <<"S","p","e","c","t","r","u","m">>,
     <<"L","o","a","d"," ","B","a","l","a","n","c","i","n","g">>,
     <<"D","u","r","a","b","l","e"," ","O","b","j","e","c","t","s">>,
     <<"T","e","n","a","n","t">>,
     <<"T","U","R","N"," ","S","e","r","v","i","c","e">>,
     <<"T","u","r","n","s","t","i","l","e">>,
     <<"V","e","c","t","o","r","i","z","e">>,
     <<"W","a","i","t","i","n","g"," ","R","o","o","m">>,
     <<"C","l","o","u","d","f","l","a","r","e"," ","W","e","b"," ","A","n","a","l","y","t","i","c","s">>,
     <<"W","o","r","k","e","r","s"," ","A","I">>,
     <<"W","o","r","k","e","r","s"," ","A","n","a","l","y","t","i","c","s"," ","E","n","g","i","n","e">>,
     <<"W","o","r","k","e","r","s"," ","f","o","r"," ","P","l","a","t","f","o","r","m","s">>,
     <<"W","o","r","k","f","l","o","w","s">>,
     <<"Z","a","r","a","z">> >>

ISSUE_LABELS ==
  << <<"B","u","g"," ","R","e","p","o","r","t">>,
     <<"F","e","a","t","u","r","e"," ","R","e","q","u","e","s","t">>,
     <<"P","e","r","f","o","r","m","a","n","c","e"," ","I","s","s","u","e">>,
     <<"S","e","c","u","r","i","t","y"," ","C","o","n","c","e","r","n">>,
     <<"D","o","c","u","m","e","n","t","a","t","i","o","n"," ","N","e","e","d">>,
     <<"I","n","t","e","g","r","a","t","i","o","n"," ","P","r","o","b","l","e","m">>,
     <<"C","o","n","f","i","g","u","r","a","t","i","o","n"," ","H","e","l","p">>,
     <<"B","i","l","l","i","n","g"," ","Q","u","e","s","t","i","o","n">>,
     <<"S","e","r","v","i","c","e"," ","D","i","s","r","u","p","t","i","o","n">>,
     <<"A","P","I"," ","I","s","s","u","e">>,
     <<"G","e","n","e","r","a","l">> >>

\* SENTIMENT_MAP: own keys of the lookup table and their entries.
SENTIMENT_MAP ==
  (<<"p","o","s","i","t","i","v","e">> :>
      [defined |-> TRUE, label |-> "Positive",
       color |-> "bg-green-500/10 text-green-500 hover:bg-green-500/20"]) @@
  (<<"n","e","g","a","t","i","v","e">> :>
      [defined |-> TRUE, label |-> "Negative",
       color |-> "bg-red-500/10 text-red-500 hover:bg-red-500/20"]) @@
  (<<"n","e","u","t","r","a","l">> :>
      [defined |-> TRUE, label |-> "Neutral",
       color |-> "bg-blue-500/10 text-blue-500 hover:bg-blue-500/20"])

\* The value JavaScript yields for a key the table does not hold. (A key that
\* names a member of Object.prototype, such as "constructor", yields that
\* member, which has no label either.)
Undefined == [defined |-> FALSE, label |-> "", color |-> ""]

\* The fallback literal of processIssues.
GeneralQuestion == <<"G","e","n","e","r","a","l"," ","Q","u","e","s","t","i","o","n">>

\* The literal processProducts compares the lower-cased completion with.
NoneWord == <<"n","o","n","e">>

(* --------------------------- string library ---------------------------- *)

UpperChars ==
  <<"A","B","C","D","E","F","G","H","I","J","K","L","M",
    "N","O","P","Q","R","S","T","U","V","W","X","Y","Z">>

LowerChars ==
  <<"a","b","c","d","e","f","g","h","i","j","k","l","m",
    "n","o","p","q","r","s","t","u","v","w","x","y","z">>

WhiteSpace == {" ", "\t", "\n"}

Range(s) == { s[i] : i \in DOMAIN s }

\* String.prototype.toLowerCase
toLowerCase(s) ==
  [ i \in DOMAIN s |->
      IF \E k \in DOMAIN UpperChars : UpperChars[k] = s[i]
      THEN LowerChars[CHOOSE k \in DOMAIN UpperChars : UpperChars[k] = s[i]]
      ELSE s[i] ]

\* Smallest and largest element of a non-empty set of integers.
Min(S) == CHOOSE x \in S : \A y \in S : x <= y
Max(S) == CHOOSE x \in S : \A y \in S : x >= y

\* The k-th smallest element of a set of integers, k in 1 .. Cardinality(S).
nth(S, k) == CHOOSE x \in S : Cardinality({y \in S : y < x}) = k - 1

\* String.prototype.trim: what lies between the first and the last character
\* that is not white space.
trim(s) ==
  LET keep == { i \in DOMAIN s : s[i] \notin WhiteSpace }
  IN  IF keep = {} THEN <<>> ELSE SubSeq(s, Min(keep), Max(keep))

\* String.prototype.split(','): the segments between the commas, in order;
\* a string with n commas has n + 1 segments, some of them possibly empty.
split(s) ==
  LET cuts   == { i \in DOMAIN s : s[i] = "," }
      n      == Cardinality(cuts) + 1
      cut(k) == IF k = 0 THEN 0 ELSE IF k = n THEN Len(s) + 1 ELSE nth(cuts, k)
  IN  [ k \in 1 .. n |-> SubSeq(s, cut(k - 1) + 1, cut(k) - 1) ]

\* String.prototype.includes
includes(s, sub) ==
  \E i \in 0 .. (Len(s) - Len(sub)) : SubSeq(s, i + 1, i + Len(sub)) = sub

\* The predicate of the filter: the lower-cased segment contains the
\* lower-cased name of some catalog entry.
matchesCatalog(p) ==
  \E lp \in {toLowerCase(p)} :
     \E k \in DOMAIN CLOUDFLARE_PRODUCTS :
        includes(lp, toLowerCase(CLOUDFLARE_PRODUCTS[k]))

\* Array.prototype.filter with that predicate: the matching segments, in
\* their order.
filterProducts(segs) ==
  LET kept == { i \in DOMAIN segs : matchesCatalog(segs[i]) }
  IN  [ k \in 1 .. Cardinality(kept) |-> segs[nth(kept, k)] ]

\* response.split(',').map(p => p.trim())
trimmedSegments(response) ==
  [ i \in DOMAIN split(response) |-> trim(split(response)[i]) ]

\* processProducts, with the filter left out: every segment is kept.
processProducts_NoFilter(response) ==
  IF toLowerCase(response) = NoneWord THEN <<>>
  ELSE trimmedSegments(response)

processProducts(response) ==
  IF toLowerCase(response) = NoneWord THEN <<>>
  ELSE filterProducts(trimmedSegments(response))

\* processIssues, matching the taxonomy without regard to case.
processIssues_IgnoreCase(response) ==
  LET issue == trim(response)
  IN  IF \E k \in DOMAIN ISSUE_LABELS :
            toLowerCase(ISSUE_LABELS[k]) = toLowerCase(issue)
      THEN <<issue>> ELSE <<GeneralQuestion>>

processIssues(response) ==
  LET issue == trim(response)
  IN  IF \E k \in DOMAIN ISSUE_LABELS : ISSUE_LABELS[k] = issue
      THEN <<issue>> ELSE <<GeneralQuestion>>

\* SENTIMENT_MAP[sentimentResponse.toLowerCase()]
sentimentOf(sentimentResponse) ==
  LET key == toLowerCase(sentimentResponse)
  IN  IF key \in DOMAIN SENTIMENT_MAP THEN SENTIMENT_MAP[key] ELSE Undefined

(* ------------------------------ values --------------------------------- *)

\* JSON values the `text` member of a request body can hold.
TextMissing == [type |-> "undefined", str |-> <<>>, num |-> 0]
TextNull    == [type |-> "null",      str |-> <<>>, num |-> 0]
TextEmpty   == [type |-> "string",    str |-> <<>>, num |-> 0]
TextBlank   == [type |-> "string",    str |-> <<" "," "," ">>, num |-> 0]
TextHello   == [type |-> "string",    str |-> <<"h","e","l","l","o">>, num |-> 0]
TextZero    == [type |-> "number",    str |-> <<>>, num |-> 0]

TextValues ==
  {TextMissing, TextNull, TextEmpty, TextBlank, TextHello, TextZero}

\* Request bodies: text that is not JSON, the JSON value null, a JSON object.
Bodies ==
  {[json |-> "invalid", text |-> TextMissing],
   [json |-> "null",    text |-> TextMissing]}
  \cup {[json |-> "object", text |-> t] : t \in TextValues}

\* What getRequestContext() can give: it throws, or env holds or lacks the
\* AI binding and holds, lacks, or holds an empty CLOUDFLARE_GATEWAY_ID.
Contexts ==
  {[throws |-> TRUE, AI |-> FALSE, GW |-> "missing"]}
  \cup {[throws |-> FALSE, AI |-> a, GW |-> g] :
           a \in BOOLEAN, g \in {"missing", "empty", "set"}}

\* JavaScript's ToBoolean on a text value, negated: the test `!text`.
isFalsy(v) ==
  \/ v.type \in {"undefined", "null"}
  \/ v.type = "string" /\ v.str = <<>>
  \/ v.type = "number" /\ v.num = 0

\* Thrown values: an Error with its message, or some value that is no Error.
EnvError         == [isError |-> TRUE,  message |-> "Required environment variables are not set"]
ContextError     == [isError |-> TRUE,  message |-> "getRequestContext failed"]
JsonError        == [isError |-> TRUE,  message |-> "Unexpected token in JSON"]
DestructureError == [isError |-> TRUE,  message |-> "Cannot destructure property 'text' of null"]
TrimTypeError    == [isError |-> TRUE,  message |-> "Cannot read properties of undefined (reading 'trim')"]
RunThrew         == [isError |-> TRUE,  message |-> "ai.run threw"]
BackendError     == [isError |-> TRUE,  message |-> "inference backend error"]
NonErrorValue    == [isError |-> FALSE, message |-> "not an Error"]
NoReason         == [isError |-> FALSE, message |-> ""]

\* The three classification calls, in the order of the Promise.all array.
Sentiment == 1
Products  == 2
Issues    == 3
Calls     == {Sentiment, Products, Issues}

Unissued        == [st |-> "unissued",  val |-> <<>>, reason |-> NoReason]
InFlight        == [st |-> "inflight",  val |-> <<>>, reason |-> NoReason]
Fulfilled(v)    == [st |-> "fulfilled", val |-> v,    reason |-> NoReason]
Rejected(r)     == [st |-> "rejected",  val |-> <<>>, reason |-> r]

(* ----------------- completions the backend may return ------------------ *)

SentimentCompletions ==
  { <<"p","o","s","i","t","i","v","e">>,
    <<"P","o","s","i","t","i","v","e">>,
    <<" ","N","E","G","A","T","I","V","E","\n">>,
    <<"n","e","u","t","r","a","l">>,
    <<"g","r","e","a","t">>,
    <<>> }

IssueCompletions ==
  { <<"B","u","g"," ","R","e","p","o","r","t">>,
    <<" ","G","e","n","e","r","a","l"," ">>,
    <<"b","u","g"," ","r","e","p","o","r","t">>,
    <<"n","o","t"," ","a"," ","c","a","t","e","g","o","r","y">>,
    GeneralQuestion,
    <<>> }

\* Segments a products completion is made of.
SegmentPool ==
  { <<"W","A","F">>,
    <<"W","o","r","k","e","r","s">>,
    <<"F","o","o">>,
    <<"r","2">>,
    <<"K","V"," ","s","t","o","r","e">>,
    <<>> }

\* The segments joined the way the prompt asks for: "a, b, c".
RECURSIVE joinSegments(_)
joinSegments(segs) ==
  IF Len(segs) = 1 THEN segs[1]
  ELSE segs[1] \o <<",", " ">> \o joinSegments(Tail(segs))

ProductCompletions ==
  { joinSegments(segs) :
      segs \in UNION { [1 .. n -> SegmentPool] : n \in 1 .. MaxSegs } }
  \cup { NoneWord, <<" ","N","O","N","E">> }

Completions(i) ==
  CASE i = Sentiment -> SentimentCompletions
    [] i = Products  -> ProductCompletions
    [] i = Issues    -> IssueCompletions

(* ------------------------------- state --------------------------------- *)

VARIABLES
  pc,          \* where POST stands: "start", "json", "dispatch", "await", "done"
  ctx,         \* what getRequestContext() gives this request
  body,        \* the request body
  calls,       \* the promise of each makeAICall
  next,        \* the element of the Promise.all array evaluated next
  joined,      \* the promise of Promise.all
  aiRunCalls,  \* number of ai.run invocations
  response,    \* the NextResponse returned
  nResponses   \* number of responses returned

vars == <<pc, ctx, body, calls, next, joined, aiRunCalls, response, nResponses>>

NoResponse ==
  [status |-> 0, error |-> "", details |-> "",
   sentiment |-> Undefined, products |-> <<>>, issues |-> <<>>]

Pending == [st |-> "pending", reason |-> NoReason]

Init ==
  /\ pc = "start"
  /\ ctx \in Contexts
  /\ body \in Bodies
  /\ calls = [i \in Calls |-> Unissued]
  /\ next = 1
  /\ joined = Pending
  /\ aiRunCalls = 0
  /\ response = NoResponse
  /\ nResponses = 0

(* ------------------------------ helpers -------------------------------- *)

\* The test of line 197, negated: both bindings are present and truthy.
\* This variant forgets the gateway id.
ConfigOk_AIOnly(c) == c.AI

ConfigOk(c) == c.AI /\ c.GW = "set"

\* What the backend's ai.run promise settles to: a rejection, or an object
\* that holds a `response` string or lacks it.
BackendResults(i) ==
  {[kind |-> "reject", reason |-> r, hasResponse |-> FALSE, response |-> <<>>] :
      r \in {BackendError, NonErrorValue}}
  \cup {[kind |-> "object", reason |-> NoReason, hasResponse |-> FALSE, response |-> <<>>]}
  \cup {[kind |-> "object", reason |-> NoReason, hasResponse |-> TRUE, response |-> c] :
      c \in Completions(i)}

\* makeAICall after its await: result.response.trim(), or the rejection.
makeAICall(result) ==
  IF result.kind = "reject" THEN Rejected(result.reason)
  ELSE IF ~result.hasResponse THEN Rejected(TrimTypeError)
  ELSE Fulfilled(trim(result.response))

\* A join that settles with the first call to settle.
promiseRace(prev, cs, i) ==
  IF prev.st # "pending" THEN prev
  ELSE IF cs[i].st = "rejected" THEN [st |-> "rejected", reason |-> cs[i].reason]
  ELSE IF cs[i].st = "fulfilled" THEN [st |-> "fulfilled", reason |-> NoReason]
  ELSE prev

\* A join that waits for every call and never rejects.
promiseAllSettled(prev, cs, i) ==
  IF prev.st # "pending" THEN prev
  ELSE IF \A j \in Calls : cs[j].st \in {"fulfilled", "rejected"}
       THEN [st |-> "fulfilled", reason |-> NoReason]
       ELSE prev

\* Promise.all: the state of the joined promise once call i has taken its
\* new state in cs. It rejects with the first rejection and fulfils when all
\* three calls have fulfilled; once settled it never changes.
promiseAll(prev, cs, i) ==
  IF prev.st # "pending" THEN prev
  ELSE IF cs[i].st = "rejected" THEN [st |-> "rejected", reason |-> cs[i].reason]
  ELSE IF \A j \in Calls : cs[j].st = "fulfilled"
       THEN [st |-> "fulfilled", reason |-> NoReason]
       ELSE prev

\* A handler without the try/catch: the error leaves POST, nothing is returned.
Catch_Rethrow(err) ==
  /\ pc' = "crashed"
  /\ UNCHANGED <<response, nResponses>>

\* The catch block: the 500 response.
Catch(err) ==
  /\ response' = [status |-> 500, error |-> "Failed to analyze text",
                  details |-> IF err.isError THEN err.message ELSE "Unknown error",
                  sentiment |-> Undefined, products |-> <<>>, issues |-> <<>>]
  /\ nResponses' = nResponses + 1
  /\ pc' = "done"

(* ------------------------------ actions -------------------------------- *)

\* Lines 196-199: read the request context and check the two bindings.
CheckContext ==
  /\ pc = "start"
  /\ IF ctx.throws THEN Catch(ContextError)
     ELSE IF ~ConfigOk(ctx) THEN Catch(EnvError)
     ELSE pc' = "json" /\ UNCHANGED <<response, nResponses>>
  /\ UNCHANGED <<ctx, body, calls, next, joined, aiRunCalls>>

\* Lines 201-207: await req.json(), destructure text, reject a falsy text.
ParseBody ==
  /\ pc = "json"
  /\ IF body.json = "invalid" THEN Catch(JsonError)
     ELSE IF body.json = "null" THEN Catch(DestructureError)
     ELSE IF isFalsy(body.text)
          THEN /\ response' = [status |-> 400, error |-> "Text is required",
                               details |-> "", sentiment |-> Undefined,
                               products |-> <<>>, issues |-> <<>>]
               /\ nResponses' = nResponses + 1
               /\ pc' = "done"
          ELSE pc' = "dispatch" /\ UNCHANGED <<response, nResponses>>
  /\ UNCHANGED <<ctx, body, calls, next, joined, aiRunCalls>>

\* The calls awaited one after the other: call i is made once call i-1 has
\* fulfilled.
IssueCall_Sequential(i) ==
  /\ next = i
  /\ \/ i = Sentiment /\ pc = "dispatch"
     \/ i # Sentiment /\ pc = "await" /\ calls[i - 1].st = "fulfilled"
  /\ \E threw \in BOOLEAN :
        LET cs == [calls EXCEPT ![i] = IF threw THEN Rejected(RunThrew) ELSE InFlight]
        IN  calls' = cs /\ joined' = promiseAll(joined, cs, i)
  /\ aiRunCalls' = aiRunCalls + 1
  /\ next' = i + 1
  /\ pc' = "await"
  /\ UNCHANGED <<ctx, body, response, nResponses>>

\* Lines 211-213 and 158: the i-th element of the Promise.all array is
\* evaluated: makeAICall runs up to its await and invokes ai.run, which
\* returns a promise or throws. The array is evaluated without suspending, so
\* no promise reaction runs between two elements; after the last element the
\* handler awaits the joined promise (line 210).
IssueCall(i) ==
  /\ pc = "dispatch"
  /\ next = i
  /\ \E threw \in BOOLEAN :
        LET cs == [calls EXCEPT ![i] = IF threw THEN Rejected(RunThrew) ELSE InFlight]
        IN  calls' = cs /\ joined' = promiseAll(joined, cs, i)
  /\ aiRunCalls' = aiRunCalls + 1
  /\ next' = i + 1
  /\ pc' = IF i = Issues THEN "await" ELSE "dispatch"
  /\ UNCHANGED <<ctx, body, response, nResponses>>

\* Lines 158-176: the backend settles the ai.run promise of call i with one
\* of `results` and makeAICall resumes; Promise.all reacts. This happens only
\* while the handler is not running, and also after it has returned.
SettleWith(i, results) ==
  /\ pc # "dispatch"
  /\ calls[i].st = "inflight"
  /\ \E result \in results :
        LET cs == [calls EXCEPT ![i] = makeAICall(result)]
        IN  calls' = cs /\ joined' = promiseAll(joined, cs, i)
  /\ UNCHANGED <<pc, ctx, body, next, aiRunCalls, response, nResponses>>

Settle(i) == SettleWith(i, BackendResults(i))

\* Lines 210-233: the await of the joined promise resumes: the result is
\* assembled and returned, or the rejection is caught.
Resume ==
  /\ pc = "await"
  /\ joined.st # "pending"
  /\ IF joined.st = "fulfilled"
     THEN /\ response' = [status |-> 200, error |-> "", details |-> "",
                          sentiment |-> sentimentOf(calls[Sentiment].val),
                          products |-> processProducts(calls[Products].val),
                          issues |-> processIssues(calls[Issues].val)]
          /\ nResponses' = nResponses + 1
          /\ pc' = "done"
     ELSE Catch(joined.reason)
  /\ UNCHANGED <<ctx, body, calls, next, joined, aiRunCalls>>

Next ==
  \/ CheckContext
  \/ ParseBody
  \/ \E i \in Calls : IssueCall(i)
  \/ \E i \in Calls : Settle(i)
  \/ Resume

Spec == Init /\ [][Next]_vars

\* The backend results that differ in how the handler goes on: a rejection
\* with an Error, a rejection with another value, an object without a
\* `response` string, and an object with a completion of at most MaxLiveLen
\* characters.
LiveResults(i) ==
  { r \in BackendResults(i) : Len(r.response) <= MaxLiveLen }

SettleLive(i) == SettleWith(i, LiveResults(i))

FairNext ==
  \/ CheckContext
  \/ ParseBody
  \/ \E i \in Calls : IssueCall(i)
  \/ \E i \in Calls : SettleLive(i)
  \/ Resume

\* The runtime resumes the handler whenever it can continue and the backend
\* settles every call it was given: the system does not stop while a step is
\* possible. Every step advances the handler or settles a call, so no
\* behaviour takes steps for ever and this is all the fairness there is to ask.
FairSpec == Init /\ [][FairNext]_vars /\ WF_vars(FairNext)

(* ----------------------------- properties ------------------------------ *)

\* Both collaborator handles are there and getRequestContext() returned.
ConfigAvailable == ~ctx.throws /\ ctx.AI /\ ctx.GW = "set"

\* The body is an object whose text is missing, empty or whitespace-only.
TextAbsentOrBlank ==
  /\ body.json = "object"
  /\ \/ body.text.type = "undefined"
     \/ body.text.type = "string" /\ trim(body.text.str) = <<>>

\* The 500 response of the error contract.
IsFailure500 ==
  /\ response.status = 500
  /\ response.error = "Failed to analyze text"
  /\ response.details # ""
  /\ response.products = <<>>
  /\ response.issues = <<>>
  /\ ~response.sentiment.defined

AllFulfilled == \A i \in Calls : calls[i].st = "fulfilled"

\* Call i was settled by the backend (not by ai.run throwing when invoked).
SettledByBackend(i) ==
  \/ calls[i].st = "fulfilled"
  \/ calls[i].st = "rejected" /\ calls[i].reason # RunThrew


\* The catalog names in lower case.
lowerCatalog ==
  [c \in DOMAIN CLOUDFLARE_PRODUCTS |-> toLowerCase(CLOUDFLARE_PRODUCTS[c])]

\* C1: with the configuration available, a request whose text is missing,
\* empty or whitespace-only makes no ai.run call and is answered with HTTP 400
\* and the error 'Text is required'.
C1_BlankTextRejected ==
  (ConfigAvailable /\ TextAbsentOrBlank) =>
     /\ aiRunCalls = 0
     /\ pc = "done" =>
          /\ response.status = 400
          /\ response.error = "Text is required"

\* C2: once the handler has returned, if any of the three calls has been
\* rejected then the response is the 500 failure response and carries no
\* result of the calls that succeeded, whatever the order of completion.
C2_AllOrNothing ==
  (pc = "done" /\ \E i \in Calls : calls[i].st = "rejected") => IsFailure500

\* C2 witness: the products call failed, the other two succeeded, and the
\* response is 500.
C2_Witness ==
  /\ pc = "done"
  /\ calls[Products].st = "rejected"
  /\ calls[Sentiment].st = "fulfilled"
  /\ calls[Issues].st = "fulfilled"
  /\ IsFailure500

\* C3: as long as one of the three calls has not been made, no call has been
\* settled by the backend; and when the handler suspends on the join, or has
\* answered after dispatching, all three ai.run invocations have been made.
C3_IssuedBeforeAnyCompletes ==
  /\ (\E i \in Calls : calls[i].st = "unissued") =>
        \A j \in Calls : ~SettledByBackend(j)
  /\ pc = "await" =>
        (aiRunCalls = 3 /\ \A i \in Calls : calls[i].st # "unissued")
  /\ (nResponses > 0 /\ aiRunCalls > 0) => aiRunCalls = 3

\* C3 witness: the handler is suspended with all three calls in flight.
C3_AllInFlight ==
  /\ pc = "await"
  /\ \A i \in Calls : calls[i].st = "inflight"
  /\ aiRunCalls = 3
  /\ nResponses = 0

\* C4 as stated: once the three calls are in flight, no response is produced
\* until every one of them has settled.
C4_JoinBarrier ==
  (nResponses > 0 /\ \A i \in Calls : calls[i].st # "unissued" /\ calls[i].reason # RunThrew)
     => \A i \in Calls : calls[i].st \in {"fulfilled", "rejected"}

\* C4 amended: a 200 response is produced only when all three calls have
\* fulfilled; a response produced after the dispatch while some call has not
\* fulfilled is the 500 failure response, and some call has been rejected.
C4_JoinOnSuccess ==
  /\ response.status = 200 => AllFulfilled
  /\ (nResponses > 0 /\ aiRunCalls > 0 /\ ~AllFulfilled) =>
        /\ IsFailure500
        /\ \E i \in Calls : calls[i].st = "rejected"

\* C4 witness: the backend rejected one call and the 500 response was
\* returned while another call is still in flight.
C4_Witness ==
  /\ pc = "done"
  /\ IsFailure500
  /\ \E i \in Calls : calls[i].st = "rejected" /\ calls[i].reason = BackendError
  /\ \E i \in Calls : calls[i].st = "inflight"

\* C5 as stated: every element of products of a 200 response equals, ignoring
\* case, an entry of the product catalog.
C5_OnlyCatalogEntries ==
  response.status = 200 =>
     \A k \in DOMAIN response.products :
        \E c \in DOMAIN lowerCatalog :
           toLowerCase(response.products[k]) = lowerCatalog[c]

\* C5 amended: every element of products of a 200 response is a trimmed
\* comma-separated segment of the products completion that contains, ignoring
\* case, the name of a catalog entry as a substring.
C5_ContainsCatalogName ==
  response.status = 200 =>
     \A k \in DOMAIN response.products :
        /\ \E c \in DOMAIN lowerCatalog :
             includes(toLowerCase(response.products[k]), lowerCatalog[c])
        /\ \E m \in DOMAIN split(calls[Products].val) :
             response.products[k] = trim(split(calls[Products].val)[m])

\* C5 witness: a 200 response lists a segment that contains a catalog name
\* and is not itself a catalog entry.
C5_Witness ==
  /\ response.status = 200
  /\ \E k \in DOMAIN response.products :
        /\ response.products[k] = <<"K","V"," ","s","t","o","r","e">>
        /\ \A c \in DOMAIN lowerCatalog :
              toLowerCase(response.products[k]) # lowerCatalog[c]

\* C6: issues of a 200 response has exactly one element; it is a label of the
\* taxonomy, and then it is the trimmed issues completion itself, or it is the
\* fallback 'General Question'.
C6_OneIssue ==
  response.status = 200 =>
     /\ Len(response.issues) = 1
     /\ \/ /\ response.issues[1] \in Range(ISSUE_LABELS)
           /\ response.issues[1] = calls[Issues].val
        \/ response.issues[1] = GeneralQuestion

\* C6 witness: a completion that differs from a label only in case gets the
\* fallback.
C6_Witness ==
  /\ response.status = 200
  /\ calls[Issues].val = <<"b","u","g"," ","r","e","p","o","r","t">>
  /\ response.issues = <<GeneralQuestion>>

\* C7: every 200 response carries a sentiment whose label is 'Positive',
\* 'Negative' or 'Neutral'.
C7_SentimentLabel ==
  response.status = 200 =>
     /\ response.sentiment.defined
     /\ response.sentiment.label \in {"Positive", "Negative", "Neutral"}

\* C8: if one of the three calls returned an empty completion, the handler
\* answers with the 500 failure response, not with 200.
C8_EmptyCompletionFails ==
  (pc = "done" /\ \E i \in Calls : calls[i].st = "fulfilled" /\ calls[i].val = <<>>)
     => IsFailure500

\* C9: when the AI binding or the gateway id is unavailable, no ai.run call
\* is made and the handler answers with the 500 failure response, whatever
\* the body.
C9_ConfigError ==
  (~ctx.AI \/ ctx.GW # "set") =>
     /\ aiRunCalls = 0
     /\ pc = "done" => IsFailure500

\* C9 witness: the gateway id is missing, the body holds a valid text, and the
\* handler answered 500 without an inference call.
C9_Witness ==
  /\ pc = "done"
  /\ ~ctx.throws /\ ctx.AI /\ ctx.GW = "missing"
  /\ body.text = TextHello
  /\ response.status = 500
  /\ response.details = EnvError.message
  /\ aiRunCalls = 0

\* A failure the handler has met: the configuration is unavailable, the body
\* cannot be parsed or destructured, or the join was rejected (a rejected or
\* throwing call, a completion object without a `response` string).
FailureMet ==
  \/ ~ConfigAvailable
  \/ body.json # "object"
  \/ joined.st = "rejected"

\* C10: when every call that was made settles, every invocation returns:
\* the handler reaches its end with exactly one response, of status 200, 400
\* or 500; it never ends anywhere else, and every failure it met gives the 500
\* failure response.
C10_AlwaysResponds ==
  /\ [](/\ pc \in {"start", "json", "dispatch", "await", "done"}
        /\ nResponses <= 1
        /\ pc = "done" =>
             /\ nResponses = 1
             /\ response.status \in {200, 400, 500}
             /\ FailureMet => IsFailure500)
  /\ <>(pc = "done" /\ nResponses = 1)

\* C10 witness: a completion object without a `response` string made the
\* handler answer 500.
C10_Witness ==
  /\ pc = "done"
  /\ joined.st = "rejected"
  /\ joined.reason = TrimTypeError
  /\ IsFailure500
  /\ nResponses = 1

====
